---------------------------- MODULE Spec2Model ----------------------------
(***************************************************************************)
(* State-machine model of native/src/lib.rs (texture_ops): the Lanczos-3   *)
(* separable upscaler with its two Rayon row-parallel passes, the three    *)
(* feature extractors (perceptual hash, colour histogram, edge density)    *)
(* and the two Rayon batch operations.                                     *)
(*                                                                         *)
(* Numbers.  usize is modelled as an unsigned word of WordBits bits with   *)
(* wrapping multiplication and addition (release build) or a panic on      *)
(* overflow (overflow_checks, debug build).  f64 values are modelled by    *)
(* exact integers and rationals: luma in thousandths (299 r + 587 g +      *)
(* 114 b), quotients as <<numerator, denominator>> pairs, and the Lanczos  *)
(* kernel by its values in millionths sampled every 1/24 of a source pixel *)
(* (every distance that arises for scale 1, 2, 3, 4 and 6).  A 64-bit hash *)
(* is modelled by the set of its set bit positions.                        *)
(***************************************************************************)
EXTENDS Integers, Sequences, FiniteSets, TLC

VARIABLES
    op,              \* the #[pyfunction] being called
    data,            \* data: &[u8], as a sequence of bytes
    width,           \* width: usize
    height,          \* height: usize
    channels,        \* channels: usize (lanczos_upscale)
    scale,           \* scale: usize (lanczos_upscale)
    bins,            \* bins: usize (color_histogram, batch_color_histogram)
    images,          \* images: Vec<(Vec<u8>, usize, usize)> (batch operations)
    overflow_checks, \* TRUE: the build panics on usize overflow; FALSE: it wraps
    pc,              \* position of the call: "call", "hpass", "vpass", "map", "done"
    hrows,           \* horizontal pass: row y -> Pending or the task's outcome
    h_buf,           \* the collected intermediate buffer
    vrows,           \* vertical pass: row y -> Pending or the task's outcome
    slots,           \* batch: item i -> Pending or the task's outcome
    finished,        \* batch: the items in the order their tasks completed
    result           \* what the call returned

\* the arguments of the call and the build: no step changes them
inputs == <<op, data, width, height, channels, scale, bins, images, overflow_checks>>

vars == <<inputs, pc, hrows, h_buf, vrows, slots, finished, result>>

-----------------------------------------------------------------------------
(* Bounds of the model *)

WordBits == 10
MaxDim == 2
MaxScale == 2
MaxFeatDim == 8
MaxBatch == 3

MaxWordLen == 12

-----------------------------------------------------------------------------
(* usize arithmetic *)

RECURSIVE Pow2(_)
Pow2(n) == IF n = 0 THEN 1 ELSE 2 * Pow2(n - 1)

WordMod == Pow2(WordBits)

Mul(a, b) == (a * b) % WordMod

Add(a, b) == (a + b) % WordMod

MulOverflows(a, b) == a * b >= WordMod

AddOverflows(a, b) == a + b >= WordMod

Min(a, b) == IF a <= b THEN a ELSE b

Max(a, b) == IF a >= b THEN a ELSE b

Abs(a) == IF a < 0 THEN -a ELSE a

RECURSIVE SeqSum(_)
SeqSum(s) == IF s = <<>> THEN 0 ELSE Head(s) + SeqSum(Tail(s))

RECURSIVE Flatten(_)
Flatten(ss) == IF ss = <<>> THEN <<>> ELSE Head(ss) \o Flatten(Tail(ss))

\* buf[i] with Rust's 0-based index
At(buf, i) == buf[i + 1]

InBounds(buf, i) == i >= 0 /\ i < Len(buf)

Pending == "Pending"

Panic == "Panic"

-----------------------------------------------------------------------------
(* Results *)

Ok(v) == [kind |-> "Ok", reason |-> "", value |-> v]

InvalidArgument(why) == [kind |-> "InvalidArgument", reason |-> why, value |-> <<>>]

Panicked == [kind |-> Panic, reason |-> "", value |-> <<>>]

NoResult == [kind |-> Pending, reason |-> "", value |-> <<>>]

-----------------------------------------------------------------------------
(* clamp_u8 and lanczos_weight *)

\* v.round().clamp(0.0, 255.0) as u8 for v = num / den, den # 0: round is
\* half away from zero
clamp_u8(num, den) ==
    LET q == (Abs(num) + (Abs(den) \div 2)) \div Abs(den)
        negative == (num < 0 /\ den > 0) \/ (num > 0 /\ den < 0)
    IN IF negative THEN 0 ELSE Min(q, 255)

\* sinc(x) * sinc(x/3) in millionths at x = k/24, k = 0 .. 71
LanczosSamples ==
    << 1000000, 996830, 987362, 971715, 950089, 922758, 890067, 852425,
       810301, 764212, 714720, 662419, 607927, 551877, 494906, 437647,
       380717, 324710, 270190, 217678, 167652, 120535, 76694, 36435,
       0, -32433, -60753, -84912, -104926, -120869, -132871, -141114,
       -145823, -147265, -145738, -141567, -135095, -126676, -116672, -105438,
       -93327, -80672, -67791, -54976, -42491, -30568, -19409, -9176,
       0, 8027, 14848, 20437, 24801, 27975, 30021, 31022,
       31079, 30308, 28835, 26793, 24317, 21541, 18593, 15596,
       12661, 9886, 7356, 5139, 3288, 1837, 806, 198 >>

\* the window a = 3.0 of line 88
LanczosA == 3

\* mutant of lanczos_weight: a tent window in place of sinc(x) * sinc(x/a)
lanczos_weight_tent(num, den) ==
    IF num = 0 THEN 1000000
    ELSE IF Abs(num) >= LanczosA * den THEN 0
    ELSE (1000000 * (LanczosA * den - Abs(num))) \div (LanczosA * den)

\* lanczos_weight(x, a) in millionths for x = num / den (den divides 24)
lanczos_weight(num, den) ==
    IF num = 0 THEN 1000000
    ELSE IF Abs(num) >= LanczosA * den THEN 0
    ELSE LanczosSamples[((Abs(num) * 24) \div den) + 1]


-----------------------------------------------------------------------------
(* lanczos_upscale: validation and the two passes *)

\* width * height * channels of line 69, as the build computes it
expected_len == Mul(Mul(width, height), channels)

ExpectedLenOverflows ==
    MulOverflows(width, height) \/ MulOverflows(Mul(width, height), channels)

new_w == Mul(width, scale)

\* mutant of new_h: the height left unscaled
new_h_unscaled == height

new_h == Mul(height, scale)

\* src = (dst + 0.5) / scale - 0.5 as the fraction SrcNum(dst) / SrcDen
SrcNum(dst) == 2 * dst + 1 - scale

SrcDen == 2 * scale

SrcFloor(dst) == SrcNum(dst) \div SrcDen

\* (src.floor() as isize - a as isize + 1).max(0) as usize
TapFirst(dst) == Max(SrcFloor(dst) - LanczosA + 1, 0)

\* ((src.floor() as isize + a as isize) as usize).min(extent - 1)
TapLast(dst, extent) == Min(SrcFloor(dst) + LanczosA, extent - 1)

Taps(dst, extent) == TapFirst(dst) .. TapLast(dst, extent)

\* lanczos_weight(src - s as f64, a)
TapWeight(dst, s) == lanczos_weight(SrcNum(dst) - SrcDen * s, SrcDen)

\* the sums / w_sum / clamp_u8 tail shared by both passes, for one channel:
\* taps is the sequence of <<weight, sample>> pairs in loop order
Resample(taps) ==
    LET w_sum == SeqSum([k \in 1..Len(taps) |-> taps[k][1]])
        sum == SeqSum([k \in 1..Len(taps) |-> taps[k][1] * taps[k][2]])
    IN IF w_sum # 0 THEN clamp_u8(sum, w_sum) ELSE clamp_u8(sum, 1000000)

\* index data[off + c] of line 108
HOff(y, sx, c) == Add(Add(Mul(Mul(y, width), channels), Mul(sx, channels)), c)

HPixel(y, x) ==
    LET x0 == TapFirst(x)
        x1 == TapLast(x, width)
    IN [c \in 1..channels |->
           Resample([k \in 1..(x1 - x0 + 1) |->
               <<TapWeight(x, x0 + k - 1), At(data, HOff(y, x0 + k - 1, c - 1))>>])]

HRowPanics(y) ==
    \E x \in 0..(new_w - 1) : \E sx \in Taps(x, width) : \E c \in 0..(channels - 1) :
        ~InBounds(data, HOff(y, sx, c))

\* one item of the horizontal pass's flat_map_iter: row y of the intermediate
HRow(y) ==
    IF HRowPanics(y) THEN [st |-> Panic, row |-> <<>>]
    ELSE [st |-> "Done", row |-> Flatten([x \in 1..new_w |-> HPixel(y, x - 1)])]

\* index h_buf_ref[off + c] of line 137
VOff(sy, x, c) == Add(Mul(Add(Mul(sy, new_w), x), channels), c)

VPixel(buf, y, x) ==
    LET y0 == TapFirst(y)
        y1 == TapLast(y, height)
    IN [c \in 1..channels |->
           Resample([k \in 1..(y1 - y0 + 1) |->
               <<TapWeight(y, y0 + k - 1), At(buf, VOff(y0 + k - 1, x, c - 1))>>])]

VRowPanics(buf, y) ==
    \E x \in 0..(new_w - 1) : \E sy \in Taps(y, height) : \E c \in 0..(channels - 1) :
        ~InBounds(buf, VOff(sy, x, c))

\* one item of the vertical pass's flat_map_iter: row y of the output
VRow(buf, y) ==
    IF VRowPanics(buf, y) THEN [st |-> Panic, row |-> <<>>]
    ELSE [st |-> "Done", row |-> Flatten([x \in 1..new_w |-> VPixel(buf, y, x - 1)])]

PendingTask == [st |-> Pending, row |-> <<>>]

\* a parallel iterator's tasks, none started
Spawn(n) == [y \in 0..(n - 1) |-> PendingTask]

SomePanicked(tasks) == \E y \in DOMAIN tasks : tasks[y].st = Panic

\* mutant of Joined: collect() does not wait for the tasks
Joined_nowait(tasks) == TRUE

\* the parallel iterator is driven to its end: every task ran, or one panicked
\* and Rayon stops handing out work
Joined(tasks) ==
    (\A y \in DOMAIN tasks : tasks[y].st # Pending) \/ SomePanicked(tasks)

\* collect(): the rows in index order, whatever order the tasks ran in
Collect(tasks, n) == Flatten([k \in 1..n |-> tasks[k - 1].row])

\* mutant of UpscaleChecks: scale checked before the length
UpscaleChecks_scalefirst ==
    IF channels # 3 /\ channels # 4 THEN InvalidArgument("channels")
    ELSE IF scale = 0 THEN InvalidArgument("scale")
    ELSE IF Len(data) # expected_len THEN InvalidArgument("length")
    ELSE NoResult

\* lines 64-87: the three checks in their order, then new_w and new_h; NoResult
\* when the call goes on to the passes
UpscaleChecks ==
    IF channels # 3 /\ channels # 4 THEN InvalidArgument("channels")
    ELSE IF overflow_checks /\ ExpectedLenOverflows THEN Panicked
    ELSE IF Len(data) # expected_len THEN InvalidArgument("length")
    ELSE IF scale = 0 THEN InvalidArgument("scale")
    ELSE IF overflow_checks /\ (MulOverflows(width, scale) \/ MulOverflows(height, scale))
      THEN Panicked
    ELSE NoResult

\* lines 57-93: the call up to the start of the horizontal pass
UpscaleValidate ==
    /\ pc = "call"
    /\ op = "lanczos_upscale"
    /\ result' = UpscaleChecks
    /\ IF UpscaleChecks = NoResult
         THEN /\ pc' = "hpass"
              /\ hrows' = Spawn(height)
         ELSE /\ pc' = "done"
              /\ hrows' = hrows
    /\ UNCHANGED <<inputs, finished, h_buf, vrows, slots>>

\* lines 95-118: one row task of the horizontal pass
HTask(y) ==
    /\ pc = "hpass"
    /\ y \in DOMAIN hrows
    /\ hrows[y].st = Pending
    /\ ~SomePanicked(hrows)
    /\ hrows' = [hrows EXCEPT ![y] = HRow(y)]
    /\ UNCHANGED <<inputs, finished, pc, h_buf, vrows, slots, result>>

\* line 119, 122-124: collect() ends the horizontal pass; only then is h_buf
\* bound and the vertical pass's iterator created
HCollect ==
    /\ pc = "hpass"
    /\ Joined(hrows)
    /\ IF SomePanicked(hrows)
         THEN /\ result' = Panicked
              /\ pc' = "done"
              /\ UNCHANGED <<h_buf, vrows>>
         ELSE /\ h_buf' = Collect(hrows, height)
              /\ vrows' = Spawn(new_h)
              /\ pc' = "vpass"
              /\ result' = result
    /\ UNCHANGED <<inputs, finished, hrows, slots>>

\* lines 125-147: one row task of the vertical pass
VTask(y) ==
    /\ pc = "vpass"
    /\ y \in DOMAIN vrows
    /\ vrows[y].st = Pending
    /\ ~SomePanicked(vrows)
    /\ vrows' = [vrows EXCEPT ![y] = VRow(h_buf, y)]
    /\ UNCHANGED <<inputs, finished, pc, hrows, h_buf, slots, result>>

\* lines 148-150: collect() ends the vertical pass; Ok((out, new_w, new_h))
VCollect ==
    /\ pc = "vpass"
    /\ Joined(vrows)
    /\ result' = IF SomePanicked(vrows) THEN Panicked
                 ELSE Ok(<<Collect(vrows, new_h), new_w, new_h>>)
    /\ pc' = "done"
    /\ UNCHANGED <<inputs, finished, hrows, h_buf, vrows, slots>>

-----------------------------------------------------------------------------
(* Feature extraction: perceptual_hash, color_histogram, edge_density *)

\* data.len() != width * height * 3, lines 177, 263 and 306, for a buffer d;
\* a build with overflow checks panics in the product first
RgbLenOverflows(w, h) == MulOverflows(w, h) \/ MulOverflows(Mul(w, h), 3)

RgbLenMismatch(d, w, h) == Len(d) # Mul(Mul(w, h), 3)

\* 0.299 r + 0.587 g + 0.114 b in thousandths, lines 200 and 318
Luma(r, g, b) == 299 * r + 587 * g + 114 * b

RECURSIVE Gcd(_, _)
Gcd(a, b) == IF b = 0 THEN a ELSE Gcd(b, a % b)

Lcm(a, b) == (a * b) \div Gcd(a, b)

RECURSIVE LcmOf(_)
LcmOf(S) == IF S = {} THEN 1
            ELSE LET c == CHOOSE c \in S : TRUE IN Lcm(c, LcmOf(S \ {c}))

\* (k as f64 * (extent as f64 / 8.0)) as usize: an exact product, truncated
BlockEdge(k, extent) == (k * extent) \div 8

\* rows y0..y1 (or columns x0..x1) of block index k, lines 188-191
BlockRange(k, extent) == BlockEdge(k, extent) .. (Min(BlockEdge(k + 1, extent), extent) - 1)

\* off = (y * width + x) * 3, line 196
PixelOff(w, y, x) == Mul(Add(Mul(y, w), x), 3)

BlockPixels(w, h, by, bx) == BlockRange(by, h) \X BlockRange(bx, w)

\* data[off], data[off + 1], data[off + 2] are all inside d
RgbInBounds(d, off) ==
    InBounds(d, off) /\ InBounds(d, Add(off, 1)) /\ InBounds(d, Add(off, 2))

HashPanics(d, w, h) ==
    \E by \in 0..7, bx \in 0..7 : \E yx \in BlockPixels(w, h, by, bx) :
        ~RgbInBounds(d, PixelOff(w, yx[1], yx[2]))

\* sum and count of one block, lines 192-203
RECURSIVE LumaSum(_, _, _)
LumaSum(d, w, px) ==
    IF px = {} THEN 0
    ELSE LET yx == CHOOSE yx \in px : TRUE
             off == PixelOff(w, yx[1], yx[2])
         IN Luma(At(d, off), At(d, off + 1), At(d, off + 2)) + LumaSum(d, w, px \ {yx})

\* mutant of HashBits: val >= mean in place of val > mean
HashBits_ge(d, w, h) ==
    LET count == [i \in 0..63 |-> Cardinality(BlockPixels(w, h, i \div 8, i % 8))]
        sum == [i \in 0..63 |-> LumaSum(d, w, BlockPixels(w, h, i \div 8, i % 8))]
        den == LcmOf({count[i] : i \in 0..63} \ {0})
        gray8x8 == [i \in 0..63 |->
                      IF count[i] > 0 THEN sum[i] * (den \div count[i]) ELSE 0]
        total == SeqSum([k \in 1..64 |-> gray8x8[k - 1]])
    IN {i \in 0..63 : 64 * gray8x8[i] >= total}

\* lines 183-215 for a buffer that passed the check and indexes in bounds:
\* the set of i with gray8x8[i] > mean.  Block means sum / count are brought
\* to the common denominator den; an empty block's mean is 0 (line 204)
HashBits(d, w, h) ==
    LET count == [i \in 0..63 |-> Cardinality(BlockPixels(w, h, i \div 8, i % 8))]
        sum == [i \in 0..63 |-> LumaSum(d, w, BlockPixels(w, h, i \div 8, i % 8))]
        den == LcmOf({count[i] : i \in 0..63} \ {0})
        gray8x8 == [i \in 0..63 |->
                      IF count[i] > 0 THEN sum[i] * (den \div count[i]) ELSE 0]
        total == SeqSum([k \in 1..64 |-> gray8x8[k - 1]])
    IN {i \in 0..63 : 64 * gray8x8[i] > total}

\* perceptual_hash, lines 176-216; Ok carries the set of set bits
perceptual_hash(d, w, h) ==
    IF overflow_checks /\ RgbLenOverflows(w, h) THEN Panicked
    ELSE IF RgbLenMismatch(d, w, h) THEN InvalidArgument("length")
    ELSE IF HashPanics(d, w, h) THEN Panicked
    ELSE Ok(<<HashBits(d, w, h)>>)

\* (data[off + c] as f64 / bin_width) as usize, then .min(bins - 1), lines
\* 275-280.  In f64 the quotient 128 / (256 / b) falls just below the integer
\* 128 b / 256 for b = 186, 198, 210, 234 and 246, and is exact or well inside
\* a bin for every other byte and every other b in 1..256
Bin(v, b) ==
    LET exact == (v * b) \div 256
        f64 == IF v = 128 /\ b \in {186, 198, 210, 234, 246} THEN exact - 1 ELSE exact
    IN Min(f64, b - 1)

HistogramPanics(d, w, h) ==
    \E i \in 0..(Mul(w, h) - 1) : ~RgbInBounds(d, Mul(i, 3))

\* hist[c * bins + k], lines 274-283
HistCount(d, w, h, b, c, k) ==
    Cardinality({i \in 0..(Mul(w, h) - 1) : Bin(At(d, Mul(i, 3) + c), b) = k})

\* color_histogram, lines 257-287; Ok carries the 3 * bins quotients
\* v as f64 / norm as <<v, norm>>: <<0, 0>> is 0.0 / 0.0, a NaN
color_histogram(d, w, h, b) ==
    IF overflow_checks /\ RgbLenOverflows(w, h) THEN Panicked
    ELSE IF RgbLenMismatch(d, w, h) THEN InvalidArgument("length")
    ELSE IF b = 0 \/ b > 256 THEN InvalidArgument("bins")
    ELSE IF HistogramPanics(d, w, h) THEN Panicked
    ELSE Ok([j \in 1..(3 * b) |->
               <<HistCount(d, w, h, b, (j - 1) \div b, (j - 1) % b), Mul(w, h)>>])

\* gray, lines 315-320, as a 0-based function
Gray(d, w, h) ==
    [i \in 0..(Mul(w, h) - 1) |->
        Luma(At(d, Mul(i, 3)), At(d, Mul(i, 3) + 1), At(d, Mul(i, 3) + 2))]

GrayPanics(d, w, h) ==
    \E i \in 0..(Mul(w, h) - 1) : ~RgbInBounds(d, Mul(i, 3))

\* the closure idx of line 327: the index it reads
GrayIdx(w, y, x, dy, dx) == Add(Mul(y + dy - 1, w), x + dx - 1)

SobelPanics(w, h) ==
    \E y \in 1..(h - 2), x \in 1..(w - 2) : \E dy \in 0..2, dx \in 0..2 :
        GrayIdx(w, y, x, dy, dx) >= Mul(w, h)

\* the threshold 30.0 of line 322, in thousandths
EdgeThreshold == 30000

\* mag > threshold, lines 328-335, for gx and gy in thousandths:
\* gx^2 + gy^2 > threshold^2, without squaring a large number
IsEdge(g, w, y, x) ==
    LET idx(dy, dx) == g[GrayIdx(w, y, x, dy, dx)]
        gx == -idx(0, 0) + idx(0, 2) - 2 * idx(1, 0) + 2 * idx(1, 2) - idx(2, 0)
              + idx(2, 2)
        gy == -idx(0, 0) - 2 * idx(0, 1) - idx(0, 2) + idx(2, 0) + 2 * idx(2, 1)
              + idx(2, 2)
    IN \/ Abs(gx) > EdgeThreshold
       \/ Abs(gy) > EdgeThreshold
       \/ gx * gx + gy * gy > EdgeThreshold * EdgeThreshold

\* edge_count, lines 323-337
EdgeCount(d, w, h) ==
    LET g == Gray(d, w, h)
    IN Cardinality({yx \in (1..(h - 2)) \X (1..(w - 2)) : IsEdge(g, w, yx[1], yx[2])})

\* mutant of edge_density: the small-image return placed before the length check
edge_density_smallfirst(d, w, h) ==
    IF w < 3 \/ h < 3 THEN Ok(<<0, 1>>)
    ELSE IF RgbLenMismatch(d, w, h) THEN InvalidArgument("length")
    ELSE Ok(<<EdgeCount(d, w, h), Mul(h - 2, w - 2)>>)

\* edge_density, lines 305-339; Ok carries edge_count as f64 / inner_pixels
\* as f64 as <<edge_count, inner_pixels>>, and the literal 0.0 as <<0, 1>>
edge_density(d, w, h) ==
    IF overflow_checks /\ RgbLenOverflows(w, h) THEN Panicked
    ELSE IF RgbLenMismatch(d, w, h) THEN InvalidArgument("length")
    ELSE IF w < 3 \/ h < 3 THEN Ok(<<0, 1>>)
    ELSE IF GrayPanics(d, w, h) \/ SobelPanics(w, h) THEN Panicked
    ELSE Ok(<<EdgeCount(d, w, h), Mul(h - 2, w - 2)>>)

\* the three single calls
HashCall ==
    /\ pc = "call"
    /\ op = "perceptual_hash"
    /\ result' = perceptual_hash(data, width, height)
    /\ pc' = "done"
    /\ UNCHANGED <<inputs, finished, hrows, h_buf, vrows, slots>>

HistogramCall ==
    /\ pc = "call"
    /\ op = "color_histogram"
    /\ result' = color_histogram(data, width, height, bins)
    /\ pc' = "done"
    /\ UNCHANGED <<inputs, finished, hrows, h_buf, vrows, slots>>

EdgeCall ==
    /\ pc = "call"
    /\ op = "edge_density"
    /\ result' = edge_density(data, width, height)
    /\ pc' = "done"
    /\ UNCHANGED <<inputs, finished, hrows, h_buf, vrows, slots>>

-----------------------------------------------------------------------------
(* Batch operations: batch_perceptual_hash, batch_color_histogram *)

\* the closure of lines 362 and 388 applied to item i (0-based) of images
ItemResult(i) ==
    LET img == images[i + 1]
    IN IF op = "batch_perceptual_hash"
         THEN perceptual_hash(img.data, img.width, img.height)
         ELSE color_histogram(img.data, img.width, img.height, bins)

\* one task of the par_iter().map(): its Result, or a panic
ItemTask(i) ==
    LET r == ItemResult(i)
    IN [st |-> IF r.kind = Panic THEN Panic ELSE "Done", row |-> r]

\* the items whose Result is an Err
Failed(tasks) == {i \in DOMAIN tasks : tasks[i].row.kind = "InvalidArgument"}

MinOf(S) == CHOOSE i \in S : \A j \in S : i <= j

\* mutant of BatchResult: the results in the order the tasks completed
BatchResult_unordered(tasks, order) ==
    IF SomePanicked(tasks) THEN Panicked
    ELSE IF Failed(tasks) # {} THEN tasks[MinOf(Failed(tasks))].row
    ELSE Ok([k \in 1..Len(order) |-> tasks[order[k]].row.value])

\* mutant of BatchResult: failed items are skipped, the others returned
BatchResult_skipfailed(tasks, order) ==
    LET n == Cardinality(DOMAIN tasks)
        RECURSIVE Kept(_)
        Kept(k) == IF k = n THEN <<>>
                   ELSE IF k \in Failed(tasks) THEN Kept(k + 1)
                   ELSE <<tasks[k].row.value>> \o Kept(k + 1)
    IN IF SomePanicked(tasks) THEN Panicked ELSE Ok(Kept(0))

\* lines 360-364 and 386-390: collect() into a Vec<Result> in index order,
\* then results.into_iter().collect::<Result<Vec, PyErr>>(): the first Err in
\* index order, else every value in index order.  order, the completion
\* order of the tasks, is not used
BatchResult(tasks, order) ==
    LET n == Cardinality(DOMAIN tasks)
    IN IF SomePanicked(tasks) THEN Panicked
       ELSE IF Failed(tasks) # {} THEN tasks[MinOf(Failed(tasks))].row
       ELSE Ok([k \in 1..n |-> tasks[k - 1].row.value])

\* images.par_iter(): one task per item
BatchStart ==
    /\ pc = "call"
    /\ op \in {"batch_perceptual_hash", "batch_color_histogram"}
    /\ slots' = Spawn(Len(images))
    /\ pc' = "map"
    /\ UNCHANGED <<inputs, finished, hrows, h_buf, vrows, result>>

\* .map(|(data, w, h)| ...): the task of item i runs
BatchTask(i) ==
    /\ pc = "map"
    /\ i \in DOMAIN slots
    /\ slots[i].st = Pending
    /\ ~SomePanicked(slots)
    /\ slots' = [slots EXCEPT ![i] = ItemTask(i)]
    /\ finished' = Append(finished, i)
    /\ UNCHANGED <<inputs, pc, hrows, h_buf, vrows, result>>

\* .collect() and the return
BatchCollect ==
    /\ pc = "map"
    /\ Joined(slots)
    /\ result' = BatchResult(slots, finished)
    /\ pc' = "done"
    /\ UNCHANGED <<inputs, finished, hrows, h_buf, vrows, slots>>

-----------------------------------------------------------------------------
(* Inputs *)

\* byte buffers of length n: 0 all black, 1 all white, 2 mixed bytes,
\* 3 pixels alternately white and black, 4 one colour (200, 100, 50),
\* 5 a black half followed by a white half
Pattern(p, n) ==
    [i \in 1..n |->
        CASE p = 0 -> 0
          [] p = 1 -> 255
          [] p = 2 -> ((i - 1) * 53 + 34) % 256
          [] p = 3 -> IF ((i - 1) \div 3) % 2 = 0 THEN 255 ELSE 0
          [] p = 4 -> <<200, 100, 50>>[((i - 1) % 3) + 1]
          [] OTHER -> IF 2 * i <= n THEN 0 ELSE 255]

Idle ==
    /\ pc = "call"
    /\ hrows = <<>>
    /\ h_buf = <<>>
    /\ vrows = <<>>
    /\ slots = <<>>
    /\ finished = <<>>
    /\ result = NoResult

\* lanczos_upscale called with small images, right and wrong lengths, right
\* and wrong channel counts, and scale from 0.  No usize product wraps for
\* these sizes, so the build's overflow checks cannot fire: one build is drawn
InitUpscale ==
    /\ op = "lanczos_upscale"
    /\ width \in 0..MaxDim
    /\ height \in 0..MaxDim
    /\ channels \in 2..5
    /\ scale \in 0..MaxScale
    /\ \E p \in {1, 2}, n \in 0..(MaxDim * MaxDim * 4 + 1) : data = Pattern(p, n)
    /\ bins = 0
    /\ images = <<>>
    /\ overflow_checks = FALSE
    /\ Idle

\* buffer lengths tried for a width x height RGB image: right, one byte
\* long, one pixel short
RgbLens(w, h) == {w * h * 3, w * h * 3 + 1, Max(w * h * 3 - 3, 0)}

BinChoices == {0, 1, 2, 3, 16, 256, 257}

\* the images each extractor is called on.  perceptual_hash is called on those
\* on which its f64 arithmetic is exact enough for the exact block means of
\* HashBits to give the same bits (an f64 run of the code agrees on all of
\* them); on pattern 4 the running f64 sum of 64 equal means 124.2 rounds, and
\* the code sets bits that exact arithmetic does not
FeatPatterns(f) == IF f = "perceptual_hash" THEN {0, 1, 2, 3, 5} ELSE 0..5

\* one feature extractor called on a small image.  No usize product wraps for
\* these sizes, so the build's overflow checks cannot fire: one build is drawn
InitFeatures ==
    /\ op \in {"perceptual_hash", "color_histogram", "edge_density"}
    /\ width \in 0..MaxFeatDim
    /\ height \in 0..MaxFeatDim
    /\ \E p \in FeatPatterns(op), n \in RgbLens(width, height) : data = Pattern(p, n)
    /\ bins \in IF op = "color_histogram" THEN BinChoices ELSE {0}
    /\ channels = 3
    /\ scale = 0
    /\ images = <<>>
    /\ overflow_checks = FALSE
    /\ Idle

NextFeatures ==
    \/ HashCall
    \/ HistogramCall
    \/ EdgeCall

SpecFeatures == InitFeatures /\ [][NextFeatures]_vars

\* the items a batch is made of: a white pixel, a 2x2 image of mixed bytes, a
\* 2x2 image one byte short, an image with no pixels
Image(p, n, w, h) == [data |-> Pattern(p, n), width |-> w, height |-> h]

ItemPool ==
    {Image(1, 3, 1, 1), Image(2, 12, 2, 2), Image(2, 11, 2, 2), Image(0, 0, 0, 0)}

RECURSIVE SeqsUpTo(_, _)
SeqsUpTo(S, n) ==
    IF n = 0 THEN {<<>>}
    ELSE SeqsUpTo(S, n - 1)
           \cup {Append(q, x) : q \in {r \in SeqsUpTo(S, n - 1) : Len(r) = n - 1}, x \in S}

\* a batch operation called on up to MaxBatch items, valid and invalid, with a
\* valid and an invalid bins.  No usize product wraps for these sizes
InitBatch ==
    /\ op \in {"batch_perceptual_hash", "batch_color_histogram"}
    /\ images \in SeqsUpTo(ItemPool, MaxBatch)
    /\ bins \in IF op = "batch_color_histogram" THEN {0, 2} ELSE {0}
    /\ data = <<>>
    /\ width = 0
    /\ height = 0
    /\ channels = 3
    /\ scale = 0
    /\ overflow_checks = FALSE
    /\ Idle

NextBatch ==
    \/ BatchStart
    \/ \E i \in DOMAIN slots : BatchTask(i)
    \/ BatchCollect

SpecBatch == InitBatch /\ [][NextBatch]_vars

\* widths and heights around the word size: small ones, and ones whose
\* products wrap
WordDims == {0, 1, 2, 3, WordMod \div 4, WordMod \div 2, WordMod - 1}

\* any of the four single-image functions called with machine-word widths and
\* heights on a short buffer, in a build that wraps and in one that panics on
\* overflow.  lanczos_upscale is given few rows, so few row tasks
InitWord ==
    /\ op \in {"lanczos_upscale", "perceptual_hash", "color_histogram", "edge_density"}
    /\ width \in WordDims
    /\ height \in IF op = "lanczos_upscale" THEN 0..4 ELSE WordDims
    /\ channels \in IF op = "lanczos_upscale" THEN {3, 4} ELSE {3}
    /\ scale \in IF op = "lanczos_upscale" THEN {1, 2} ELSE {0}
    /\ bins \in IF op = "color_histogram" THEN {1, 2} ELSE {0}
    /\ \E n \in 0..MaxWordLen : data = Pattern(0, n)
    /\ images = <<>>
    /\ overflow_checks \in BOOLEAN
    /\ Idle

NextWord ==
    \/ UpscaleValidate
    \/ \E y \in DOMAIN hrows : HTask(y)
    \/ HCollect
    \/ \E y \in DOMAIN vrows : VTask(y)
    \/ VCollect
    \/ HashCall
    \/ HistogramCall
    \/ EdgeCall

SpecWord == InitWord /\ [][NextWord]_vars

NextUpscale ==
    \/ UpscaleValidate
    \/ \E y \in DOMAIN hrows : HTask(y)
    \/ HCollect
    \/ \E y \in DOMAIN vrows : VTask(y)
    \/ VCollect

SpecUpscale == InitUpscale /\ [][NextUpscale]_vars

-----------------------------------------------------------------------------
(* Claims about lanczos_upscale, under SpecUpscale *)

\* the three contract violations, with the true product width*height*channels
BadChannels == channels # 3 /\ channels # 4

BadLength == Len(data) # width * height * channels

BadScale == scale = 0

Accepted == ~BadChannels /\ ~BadLength /\ ~BadScale

\* C1: lanczos_upscale returns InvalidArgument exactly when channels is not 3
\* or 4, or len(data) # width*height*channels, or scale = 0; the reason is that
\* of the first violated check in this order; in these cases no pass runs and
\* no buffer is produced; every other input returns Ok.
C1_RejectsExactlyInvalid ==
    /\ pc = "done" =>
         /\ (result.kind = "InvalidArgument") <=> ~Accepted
         /\ BadChannels => result.reason = "channels"
         /\ (~BadChannels /\ BadLength) => result.reason = "length"
         /\ (~BadChannels /\ ~BadLength /\ BadScale) => result.reason = "scale"
         /\ Accepted => result.kind = "Ok"
    /\ ~Accepted =>
         /\ pc \in {"call", "done"}
         /\ hrows = <<>> /\ h_buf = <<>> /\ vrows = <<>>
         /\ result.value = <<>>

\* C1 witness: a call whose length and scale are both wrong has returned, and
\* the reason is the length
C1_Witness ==
    /\ pc = "done"
    /\ ~BadChannels /\ BadLength /\ BadScale
    /\ result = InvalidArgument("length")

\* C2: for every accepted input (zero width or height included) the result is
\* (out, width*scale, height*scale) with len(out) = (width*scale)*(height*scale)
\* *channels, and the intermediate buffer has length height*(width*scale)*channels.
C2_OutputShape ==
    /\ (pc = "done" /\ Accepted) =>
         /\ result.kind = "Ok"
         /\ Len(result.value) = 3
         /\ result.value[2] = width * scale
         /\ result.value[3] = height * scale
         /\ Len(result.value[1]) = (width * scale) * (height * scale) * channels
    /\ (pc \in {"vpass", "done"} /\ Accepted) =>
         Len(h_buf) = height * (width * scale) * channels

\* C2 witness: a 2x1 RGBA image upscaled by 2 has returned 4x2x4 bytes
C2_Witness ==
    /\ pc = "done" /\ result.kind = "Ok"
    /\ width = 2 /\ height = 1 /\ channels = 4 /\ scale = 2
    /\ Len(result.value[1]) = 32

\* C8: with scale = 1 every accepted input is returned byte for byte, by the
\* horizontal pass (the intermediate buffer) and by the vertical pass (the output).
C8_ScaleOneIdentity ==
    (pc = "done" /\ Accepted /\ scale = 1) =>
        /\ result = Ok(<<data, width, height>>)
        /\ h_buf = data

\* C8 witness: a 2x2 image of differing bytes went through both passes at scale 1
C8_Witness ==
    /\ pc = "done" /\ result.kind = "Ok" /\ scale = 1
    /\ width = 2 /\ height = 2
    /\ data[1] # data[2]

\* what one thread running the rows in order computes
SequentialHBuf == Flatten([k \in 1..height |-> HRow(k - 1).row])

SequentialOut == Flatten([k \in 1..new_h |-> VRow(SequentialHBuf, k - 1).row])

\* C10: no vertical row task has run before every horizontal row task is done
\* and the intermediate buffer holds the rows in source-row order; every output
\* row is the vertical resampling of that buffer; the result is the sequential one.
C10_PassBarrier ==
    /\ (\E y \in DOMAIN vrows : vrows[y].st # Pending) =>
         /\ DOMAIN hrows = 0..(height - 1)
         /\ \A y \in DOMAIN hrows : hrows[y].st = "Done"
         /\ h_buf = SequentialHBuf
    /\ \A y \in DOMAIN vrows :
         vrows[y].st = "Done" => vrows[y].row = VRow(SequentialHBuf, y).row
    /\ (pc = "done" /\ result.kind = "Ok") => result.value[1] = SequentialOut

\* C10 witness: the vertical pass is under way, its last row done before its first
C10_Witness ==
    /\ pc = "vpass"
    /\ height = 2 /\ width = 2 /\ scale = 2
    /\ vrows[0].st = Pending
    /\ vrows[new_h - 1].st = "Done"
    /\ data[1] # data[2]

-----------------------------------------------------------------------------
(* Claims about the feature extractors, under SpecFeatures *)

\* the buffer holds width * height RGB pixels (the true product)
RgbLenOk == Len(data) = width * height * 3

\* every byte of the buffer is v
Uniform(v) == \A i \in DOMAIN data : data[i] = v

\* every pixel of the buffer has the colour of the first
UniformColour == \A i \in DOMAIN data : i > 3 => data[i] = data[i - 3]

HashDone == op = "perceptual_hash" /\ pc = "done" /\ RgbLenOk

\* C5 as stated: perceptual_hash returns 0 for every uniformly black and every
\* uniformly white RGB image accepted by the length check, for every width and
\* height, dimensions below 8 included.
C5_UniformHashZero ==
    (HashDone /\ (Uniform(0) \/ Uniform(255))) => result = Ok(<<{}>>)

\* C5 as amended: perceptual_hash returns 0 for every uniformly black image,
\* and for every uniformly white image whose width and height are both at
\* least 8 or that has no pixels; for a uniformly white image with a dimension
\* in 1..7 block 0 is empty (mean 0), block 63 is not (mean 255), and the hash
\* has bit 63 set and bit 0 clear.
C5_UniformHashAmended ==
    /\ (HashDone /\ Uniform(0)) => result = Ok(<<{}>>)
    /\ (HashDone /\ Uniform(255) /\ ((width >= 8 /\ height >= 8) \/ width * height = 0))
         => result = Ok(<<{}>>)
    /\ (HashDone /\ Uniform(255) /\ width * height > 0 /\ (width < 8 \/ height < 8))
         => /\ result.kind = "Ok"
            /\ 63 \in result.value[1]
            /\ 0 \notin result.value[1]

\* C5 witness: an all-white 8x8 image, the smallest with no empty block, has
\* been hashed
C5_Witness ==
    /\ HashDone /\ Uniform(255)
    /\ width = 8 /\ height = 8
    /\ result.kind = "Ok"

HistogramDone == op = "color_histogram" /\ pc = "done" /\ RgbLenOk /\ bins \in 1..256

\* the counts of channel c: the numerators of its bins-length slice
ChannelCounts(c) == SeqSum([k \in 1..bins |-> result.value[c * bins + k][1]])

\* v / norm is a number, and the slice sums to 1.0: the numerators sum to the
\* common non-zero denominator
SliceSumsToOne(c) ==
    /\ \A k \in 1..bins : result.value[c * bins + k][2] = width * height
    /\ width * height # 0
    /\ ChannelCounts(c) = width * height

\* C6 as stated: for every RGB buffer with len(data) = width*height*3 and every
\* bins in 1..256, color_histogram returns 3*bins values, channel-major, whose
\* counts sum to width*height per channel so that each channel's normalized
\* slice sums to 1.0; with bins = 1 the result is exactly [1.0, 1.0, 1.0].
C6_HistogramNormalized ==
    HistogramDone =>
        /\ result.kind = "Ok"
        /\ Len(result.value) = 3 * bins
        /\ \A c \in 0..2 : SliceSumsToOne(c)
        /\ bins = 1 => \A c \in 1..3 :
               result.value[c][1] = result.value[c][2] /\ result.value[c][2] # 0

\* C6 for images with at least one pixel (what the code does satisfy), and
\* the quotient 0.0 / 0.0 it returns for every value of an image with none
C6_HistogramOfPixels ==
    /\ (HistogramDone /\ width * height > 0) =>
        /\ result.kind = "Ok"
        /\ Len(result.value) = 3 * bins
        /\ \A c \in 0..2 : SliceSumsToOne(c)
        /\ bins = 1 => \A c \in 1..3 : result.value[c] = <<width * height, width * height>>
    /\ (HistogramDone /\ width * height = 0) =>
        /\ result.kind = "Ok"
        /\ \A j \in 1..(3 * bins) : result.value[j] = <<0, 0>>

EdgeDone == op = "edge_density" /\ pc = "done"

\* C7: after the length check edge_density returns exactly 0.0 when width < 3
\* or height < 3, and otherwise edge_count / ((height-2)*(width-2)) with
\* 0 <= edge_count <= (height-2)*(width-2); an image of one colour gives 0.0;
\* a length mismatch is InvalidArgument even when width < 3 or height < 3.
C7_EdgeDensity ==
    EdgeDone =>
        /\ ~RgbLenOk => result = InvalidArgument("length")
        /\ (RgbLenOk /\ (width < 3 \/ height < 3)) => result = Ok(<<0, 1>>)
        /\ (RgbLenOk /\ width >= 3 /\ height >= 3) =>
              /\ result.kind = "Ok"
              /\ result.value[2] = (height - 2) * (width - 2)
              /\ 0 <= result.value[1]
              /\ result.value[1] <= result.value[2]
        /\ (RgbLenOk /\ UniformColour) => (result.kind = "Ok" /\ result.value[1] = 0)

\* C7 witness: an image with edges at some interior pixels and not at others
C7_Witness ==
    /\ EdgeDone /\ RgbLenOk
    /\ width >= 3 /\ height >= 3
    /\ result.kind = "Ok"
    /\ 0 < result.value[1]
    /\ result.value[1] < result.value[2]

-----------------------------------------------------------------------------
(* Claims about the batch operations, under SpecBatch *)

\* the single-image function called on item i alone
Individually(i) ==
    IF op = "batch_perceptual_hash"
      THEN perceptual_hash(images[i + 1].data, images[i + 1].width, images[i + 1].height)
      ELSE color_histogram(images[i + 1].data, images[i + 1].width,
                           images[i + 1].height, bins)

Items == 0..(Len(images) - 1)

Invalid == {i \in Items : Individually(i).kind = "InvalidArgument"}

\* C3: batch_perceptual_hash over N valid images returns exactly N results,
\* the i-th equal to perceptual_hash of the i-th image alone, whatever order
\* the tasks completed in.
C3_BatchHashInOrder ==
    (op = "batch_perceptual_hash" /\ pc = "done" /\ Invalid = {}) =>
        /\ result.kind = "Ok"
        /\ Len(result.value) = Len(images)
        /\ \A i \in Items : Individually(i) = Ok(result.value[i + 1])

\* C3 witness: three valid images with different hashes were hashed, the
\* last one first
C3_Witness ==
    /\ op = "batch_perceptual_hash" /\ pc = "done" /\ Invalid = {}
    /\ Len(images) = 3
    /\ finished[1] = 2
    /\ result.kind = "Ok"
    /\ result.value[1] # result.value[2]
    /\ result.value[2] # result.value[3]

\* C4: a batch operation returns an error if and only if some item fails
\* validation on its own; the error is that of the failing item of lowest
\* index, whichever task finished first, and carries no results; an empty
\* collection gives an empty success.
C4_BatchFailsFast ==
    (pc = "done" /\ op \in {"batch_perceptual_hash", "batch_color_histogram"}) =>
        /\ (result.kind = "InvalidArgument") <=> (Invalid # {})
        /\ Invalid # {} =>
             /\ result = Individually(MinOf(Invalid))
             /\ result.value = <<>>
        /\ Invalid = {} =>
             /\ result.kind = "Ok"
             /\ Len(result.value) = Len(images)
        /\ images = <<>> => result = Ok(<<>>)

\* C4 witness: two items fail for different reasons, the one of higher index
\* finished first, and the batch returned the error of the one of lower index
C4_Witness ==
    /\ pc = "done" /\ op = "batch_color_histogram"
    /\ Len(images) = 3
    /\ Individually(0) = InvalidArgument("bins")
    /\ Individually(1) = InvalidArgument("length")
    /\ finished[1] = 1
    /\ result = InvalidArgument("bins")

-----------------------------------------------------------------------------
(* Claim about machine-word arithmetic, under SpecWord *)

\* the true product width * height * channels, not reduced modulo 2^w
TrueLen == width * height * channels

\* C9: over machine-word widths and heights, with width*height*channels
\* computed modulo 2^w, each of lanczos_upscale, perceptual_hash,
\* color_histogram and edge_density either rejects the input with
\* InvalidArgument or completes with every index it reads inside the buffer
\* (it does not panic), and a buffer whose length differs from the true
\* product is never accepted.
C9_WordSafe ==
    pc = "done" =>
        /\ result.kind \in {"InvalidArgument", "Ok"}
        /\ result.kind = "Ok" => Len(data) = TrueLen
        /\ Len(data) # TrueLen => result.kind = "InvalidArgument"
=============================================================================
